---- MODULE Spec2Model ----
(***************************************************************************)
(* The "Subscribe to SNS topic" block of flows-app-aws-toolkit.            *)
(*                                                                         *)
(* The repository holds two revisions of the block:                        *)
(*   "blocks"   src/blocks/subscribeSNSTopic.ts (reset marker, 30 s)       *)
(*   "part_000" src/unnamed/part_000 (topic cross-check, 180 s)            *)
(* The variable `variant` says which revision a behaviour runs; it never   *)
(* changes.  Every handler of the block (onSync, onDrain, http.onRequest,  *)
(* inputs.configChange.onEvent) is one action.  The host, the provider and *)
(* the clock are the environment: what they answer is drawn with \E.       *)
(*                                                                         *)
(* Store operations take effect in the order the handlers issue them.      *)
(***************************************************************************)
EXTENDS Integers, Sequences, FiniteSets, TLC

VARIABLES
    variant,      \* which revision of the block runs
    now,          \* Date.now(), in milliseconds
    signal,       \* lifecycle signal subscriptionArn, as the host holds it
    kvConfirm,    \* the store's value under subscriptionConfirmationKey
    kvReset,      \* the store's value under subscriptionResetKey
    remote,       \* the subscriptions the provider lists for the topic
    inflight,     \* store writes issued without await that have not landed
    phase,        \* the host's lifecycle of the block: active, draining, drained
    last          \* what the last handler invocation saw, did and returned

vars == <<variant, now, signal, kvConfirm, kvReset, inflight, remote, phase,
          last>>

-----------------------------------------------------------------------------
(* Program constants *)

Variants == {"blocks", "part_000"}

subscriptionTimeoutSeconds(v) == IF v = "blocks" THEN 30 ELSE 180
subscriptionRecheckSeconds == 5

subscriptionConfirmationKey == "subscription-confirmation"
subscriptionResetKey == "subscription-reset"

\* enum SubscriptionStatus
PENDING == "PENDING"
FAILED == "FAILED"

-----------------------------------------------------------------------------
(* Bounds of the model *)

EpochMs == 1000       \* Date.now() when the block is created (never 0)
ClockStepMs == 500    \* the small step of the clock
MaxExtraMs == 500     \* small steps the clock takes after a whole window
MaxWindows == 1       \* whole timeout windows the clock passes
MaxPages == 2         \* pages of one ListSubscriptionsByTopic chain
MaxRaced == 1         \* ticks that overtake a write in flight

Arns == {"sub-1", "sub-2"}    \* the identities Subscribe can return
Null == "null"                \* a signal that is not held

ConfiguredTopic == "topic-A"
TopicArns == {ConfiguredTopic, "topic-B"}

TimeoutMs(v) == subscriptionTimeoutSeconds(v) * 1000

-----------------------------------------------------------------------------
(* interface SubscriptionState, as stored under subscriptionConfirmationKey. *)
(* A value the store does not hold is NoRecord; ttl = 0 is "no expiry".     *)

NoRecord ==
    [status |-> "NONE", hasCreatedAt |-> FALSE, createdAt |-> 0,
     description |-> <<>>, ttl |-> 0]

\* A PENDING record written without its initialization time.
PendingRecord_noCreatedAt(v, t) ==
    [status |-> PENDING, hasCreatedAt |-> FALSE, createdAt |-> 0,
     description |-> <<>>, ttl |-> subscriptionTimeoutSeconds(v)]

\* A PENDING record that the store keeps for twice the timeout.
PendingRecord_longTtl(v, t) ==
    [status |-> PENDING, hasCreatedAt |-> TRUE, createdAt |-> t,
     description |-> <<>>, ttl |-> 2 * subscriptionTimeoutSeconds(v)]

PendingRecord(v, t) ==
    [status |-> PENDING, hasCreatedAt |-> TRUE, createdAt |-> t,
     description |-> <<>>, ttl |-> subscriptionTimeoutSeconds(v)]

\* part_000 also stores createdAt in a FAILED record; "blocks" does not.
FailedRecord(v, t, errMsg) ==
    [status |-> FAILED, hasCreatedAt |-> (v = "part_000"),
     createdAt |-> IF v = "part_000" THEN t ELSE 0,
     description |-> errMsg, ttl |-> 0]

-----------------------------------------------------------------------------
(* The provider's answer to ListSubscriptionsByTopic: a chain of pages.    *)
(* Page i carries NextToken exactly when a page i+1 follows it; the field  *)
(* Subscriptions is optional in the client's response type.                *)

PageBodies ==
    {[hasSubscriptions |-> TRUE, Subscriptions |-> S] : S \in SUBSET Arns}
        \cup {[hasSubscriptions |-> FALSE, Subscriptions |-> {}]}

AllChains == UNION {[1..n -> PageBodies] : n \in 1..MaxPages}

Listed(pages) == UNION {pages[i].Subscriptions : i \in 1..Len(pages)}

hasNextToken(pages, token) == token < Len(pages)

\* The chains the provider can answer with when it lists exactly `subs`.
ListResponses(subs) == {pages \in AllChains : Listed(pages) = subs}

\* response.Subscriptions?.findIndex(v => v.SubscriptionArn === arn) !== -1
\* An absent Subscriptions makes the left side undefined, and undefined !== -1.
findIndexNotMinusOne(page, subscriptionArn) ==
    IF page.hasSubscriptions
    THEN subscriptionArn \in page.Subscriptions
    ELSE TRUE

RECURSIVE checkTopicSubscriptionExists(_, _, _)
checkTopicSubscriptionExists(pages, subscriptionArn, token) ==
    IF findIndexNotMinusOne(pages[token], subscriptionArn)
    THEN TRUE
    ELSE IF hasNextToken(pages, token)
         THEN checkTopicSubscriptionExists(pages, subscriptionArn, token + 1)
         ELSE FALSE

\* The ListSubscriptionsByTopic requests one existence check sends.
RECURSIVE listRequests(_, _, _)
listRequests(pages, subscriptionArn, token) ==
    IF findIndexNotMinusOne(pages[token], subscriptionArn)
           \/ ~hasNextToken(pages, token)
    THEN <<"ListSubscriptionsByTopic">>
    ELSE <<"ListSubscriptionsByTopic">>
             \o listRequests(pages, subscriptionArn, token + 1)

-----------------------------------------------------------------------------
(* onSync *)

\* What a lifecycle handler hands back to the host (or that it threw).
\* calls: the provider calls sent; kvOps: the store's set and delete
\* operations issued; rec, reset: the store's two values once the awaited
\* operations are applied.
Returned(status, delay, description, signalUpdates, calls, kvOps, rec, reset) ==
    [raised |-> FALSE, newStatus |-> status, nextScheduleDelay |-> delay,
     customStatusDescription |-> description, signalUpdates |-> signalUpdates,
     calls |-> calls, kvOps |-> kvOps, kvConfirm |-> rec, kvReset |-> reset]

Threw(calls, kvOps, rec, reset) ==
    [raised |-> TRUE, newStatus |-> "none", nextScheduleDelay |-> {},
     customStatusDescription |-> <<>>, signalUpdates |-> {},
     calls |-> calls, kvOps |-> kvOps, kvConfirm |-> rec, kvReset |-> reset]

kvSet(key) == <<"set", key>>
kvDelete(key) == <<"delete", key>>

\* kv.block.set and kv.block.delete called without await: the handler goes
\* on, and may return, while the store has not applied the operation.
kvSetNoAwait(key) == <<"set, not awaited", key>>
kvDeleteNoAwait(key) == <<"delete, not awaited", key>>

\* The comparison with >= in place of >.
timedOut_ge(v, t, createdAt) ==
    (t - createdAt) >= TimeoutMs(v)

\* The comparison after truncating the elapsed time to whole seconds.
timedOut_floor(v, t, createdAt) ==
    ((t - createdAt) \div 1000) > subscriptionTimeoutSeconds(v)

\* (Date.now() - createdAt) / 1000 > subscriptionTimeoutSeconds, a division
\* of reals: it holds exactly when the difference exceeds timeout * 1000 ms.
timedOut(v, t, createdAt) ==
    (t - createdAt) > TimeoutMs(v)

\* case PENDING: does the switch break (and fall to Subscribe)?
\* "blocks" breaks on a missing createdAt; in part_000 the difference is NaN
\* and NaN > timeout is false.
pendingBreaks(v, t, rec) ==
    IF ~rec.hasCreatedAt
    THEN v = "blocks"
    ELSE timedOut(v, t, rec.createdAt)

\* An error message: its fixed text, then the value interpolated into it.
subscribeErrMsg(v, code) ==
    IF v = "blocks"
    THEN <<"Couldn't issue SNS Subscribe command, statusCode: ", ToString(code)>>
    ELSE <<"Failed to issue subscribe command, statusCode: ", ToString(code)>>

\* A failed Subscribe that asks to be run again after the recheck delay.
subscribeStep_retryOnFailure(v, t, rec, reset, calls, sub) ==
    IF sub.outcome = "throw"
    THEN Threw(calls \o <<"Subscribe">>, <<>>, rec, reset)
    ELSE IF sub.code # 200
    THEN Returned("failed", {subscriptionRecheckSeconds},
                  subscribeErrMsg(v, sub.code), {Null},
                  calls \o <<"Subscribe">>, <<>>, rec, reset)
    ELSE Returned("in_progress", {subscriptionRecheckSeconds}, <<>>, {sub.arn},
                  calls \o <<"Subscribe">>,
                  <<kvSet(subscriptionConfirmationKey)>>,
                  PendingRecord(v, t), reset)

\* A failed Subscribe that leaves the identity as it was.
subscribeStep_keepsIdentity(v, t, rec, reset, calls, sub) ==
    IF sub.outcome = "throw"
    THEN Threw(calls \o <<"Subscribe">>, <<>>, rec, reset)
    ELSE IF sub.code # 200
    THEN Returned("failed", {}, subscribeErrMsg(v, sub.code), {},
                  calls \o <<"Subscribe">>, <<>>, rec, reset)
    ELSE Returned("in_progress", {subscriptionRecheckSeconds}, <<>>, {sub.arn},
                  calls \o <<"Subscribe">>,
                  <<kvSet(subscriptionConfirmationKey)>>,
                  PendingRecord(v, t), reset)

\* From `new SubscribeCommand` to the end of onSync.
\* sub = [outcome, arn, code]: client.send throws, or answers with a status
\* code and (on 200) the new SubscriptionArn.
subscribeStep(v, t, rec, reset, calls, sub) ==
    IF sub.outcome = "throw"
    THEN Threw(calls \o <<"Subscribe">>, <<>>, rec, reset)
    ELSE IF sub.code # 200
    THEN Returned("failed", {}, subscribeErrMsg(v, sub.code), {Null},
                  calls \o <<"Subscribe">>, <<>>, rec, reset)
    ELSE Returned("in_progress", {subscriptionRecheckSeconds}, <<>>, {sub.arn},
                  calls \o <<"Subscribe">>,
                  <<kvSet(subscriptionConfirmationKey)>>,
                  PendingRecord(v, t), reset)

\* A waiting tick that rewrites the PENDING record with a new createdAt.
handshakeStep_refresh(v, t, rec, reset, calls, sub) ==
    IF rec.status = PENDING /\ ~pendingBreaks(v, t, rec)
    THEN Returned("in_progress", {subscriptionRecheckSeconds}, <<>>, {},
                  calls, <<kvSet(subscriptionConfirmationKey)>>,
                  PendingRecord(v, t), reset)
    ELSE IF rec.status = FAILED
    THEN Returned("failed", {}, rec.description, {Null}, calls, <<>>,
                  rec, reset)
    ELSE subscribeStep(v, t, rec, reset, calls, sub)

\* The switch on the stored handshake record, reached when the identity is
\* held and the existence check answered false.
handshakeStep(v, t, rec, reset, calls, sub) ==
    IF rec.status = PENDING /\ ~pendingBreaks(v, t, rec)
    THEN Returned("in_progress", {subscriptionRecheckSeconds}, <<>>, {},
                  calls, <<>>, rec, reset)
    ELSE IF rec.status = FAILED
    THEN Returned("failed", {}, rec.description, {Null}, calls, <<>>,
                  rec, reset)
    ELSE subscribeStep(v, t, rec, reset, calls, sub)

\* A confirmed identity reported ready without deleting the record.
existenceStep_keepsRecord(v, t, sig, rec, reset, list, sub) ==
    IF list.throws
    THEN Threw(<<"ListSubscriptionsByTopic">>, <<>>, rec, reset)
    ELSE IF checkTopicSubscriptionExists(list.pages, sig, 1)
    THEN Returned("ready", {}, <<>>, {},
                  listRequests(list.pages, sig, 1), <<>>, rec, reset)
    ELSE handshakeStep(v, t, rec, reset,
                       listRequests(list.pages, sig, 1), sub)

\* list = [throws, pages]: the existence check's client.send throws, or the
\* provider answers with the chain `pages`.
existenceStep(v, t, sig, rec, reset, list, sub) ==
    IF list.throws
    THEN Threw(<<"ListSubscriptionsByTopic">>, <<>>, rec, reset)
    ELSE IF checkTopicSubscriptionExists(list.pages, sig, 1)
    THEN Returned("ready", {}, <<>>, {},
                  listRequests(list.pages, sig, 1),
                  <<kvDelete(subscriptionConfirmationKey)>>, NoRecord, reset)
    ELSE handshakeStep(v, t, rec, reset,
                       listRequests(list.pages, sig, 1), sub)

\* Only "blocks" reads the reset marker.
resetObserved(v, reset) == v = "blocks" /\ reset

\* The switch on the stored record applied also when no identity is held.
onSync_switchWithoutIdentity(v, t, sig, rec, reset, list, sub) ==
    IF resetObserved(v, reset)
    THEN Returned("draft", {}, <<>>, {Null}, <<>>,
                  <<kvDeleteNoAwait(subscriptionResetKey)>>, rec, reset)
    ELSE IF sig # Null
    THEN existenceStep(v, t, sig, rec, reset, list, sub)
    ELSE handshakeStep(v, t, rec, reset, <<>>, sub)

onSync(v, t, sig, rec, reset, list, sub) ==
    IF resetObserved(v, reset)
    THEN Returned("draft", {}, <<>>, {Null}, <<>>,
                  <<kvDeleteNoAwait(subscriptionResetKey)>>, rec, reset)
    ELSE IF sig # Null
    THEN existenceStep(v, t, sig, rec, reset, list, sub)
    ELSE subscribeStep(v, t, rec, reset, <<>>, sub)

\* The host applies signalUpdates of a handler that returned.
applySignal(sig, res) ==
    IF res.signalUpdates = {} THEN sig
    ELSE CHOOSE s \in res.signalUpdates : TRUE

-----------------------------------------------------------------------------
(* deleteTopicSubscription and onDrain *)

unsubscribeErrMsg(v, code) ==
    IF v = "blocks"
    THEN <<"Couldn't issue SNS unsubscribe command, statusCode: ", ToString(code)>>
    ELSE <<"Failed to issue unsubscribe command, statusCode: ", ToString(code)>>

\* unsub = [outcome, code, message]: client.send throws an error carrying
\* `message`, or answers with a status code.
\* The result: whether it threw, err.message, and the store's record after.
deleteTopicSubscription(v, rec, unsub) ==
    IF unsub.outcome = "throw"
    THEN [threw |-> TRUE, message |-> unsub.message, kvOps |-> <<>>,
          kvConfirm |-> rec]
    ELSE IF unsub.code # 200
    THEN [threw |-> TRUE, message |-> unsubscribeErrMsg(v, unsub.code),
          kvOps |-> <<>>, kvConfirm |-> rec]
    ELSE [threw |-> FALSE, message |-> <<>>,
          kvOps |-> <<kvDelete(subscriptionConfirmationKey)>>,
          kvConfirm |-> NoRecord]

\* A drain that clears the identity although Unsubscribe failed.
onDrain_clearsSignal(v, sig, rec, reset, unsub) ==
    IF sig # Null
    THEN LET del == deleteTopicSubscription(v, NoRecord, unsub)
         IN  IF del.threw
             THEN Returned("draining_failed", {}, del.message, {Null},
                           <<"Unsubscribe">>,
                           <<kvDelete(subscriptionConfirmationKey)>>,
                           del.kvConfirm, reset)
             ELSE Returned("drained", {}, <<>>, {}, <<"Unsubscribe">>,
                           <<kvDelete(subscriptionConfirmationKey)>>
                               \o del.kvOps,
                           del.kvConfirm, reset)
    ELSE Returned("drained", {}, <<>>, {}, <<>>, <<>>, rec, reset)

onDrain(v, sig, rec, reset, unsub) ==
    IF sig # Null
    THEN LET del == deleteTopicSubscription(v, NoRecord, unsub)
         IN  IF del.threw
             THEN Returned("draining_failed", {}, del.message, {},
                           <<"Unsubscribe">>,
                           <<kvDelete(subscriptionConfirmationKey)>>,
                           del.kvConfirm, reset)
             ELSE Returned("drained", {}, <<>>, {}, <<"Unsubscribe">>,
                           <<kvDelete(subscriptionConfirmationKey)>>
                               \o del.kvOps,
                           del.kvConfirm, reset)
    ELSE Returned("drained", {}, <<>>, {}, <<>>, <<>>, rec, reset)

-----------------------------------------------------------------------------
(* http.onRequest and handleTopicSubscriptionMesage *)

confirmStatusErrMsg(v, status) ==
    IF v = "blocks"
    THEN <<"Confirming subscription, status code: ", ToString(status)>>
    ELSE <<"Failed to confirm subscription, status code: ", ToString(status)>>

confirmThrownErrMsg(v, message) ==
    IF v = "blocks"
    THEN <<"Sending confirm subscription requeste: ", message>>
    ELSE <<"Failed to issue confirm subscription request: ", message>>

\* No record was written.
NoWrite ==
    [status |-> "NOWRITE", hasCreatedAt |-> FALSE, createdAt |-> 0,
     description |-> <<>>, ttl |-> 0]

\* What the callback handler did: fetched the confirmation URL or not, the
\* store operations, the events emitted, the lifecycle.sync() calls,
\* `trace`, the calls in program order, each with whether it is awaited, and
\* `written`, the record its kv.block.set was called with.
Handled(fetched, kvOps, events, syncCalls, trace, written) ==
    [fetched |-> fetched, kvOps |-> kvOps, events |-> events,
     syncCalls |-> syncCalls, trace |-> trace, written |-> written]

awaited(call) == <<call, TRUE>>
notAwaited(call) == <<call, FALSE>>

\* A confirmation that marks the handshake confirmed in the store as soon as
\* the fetch answers 200.
confirmSubscription_marksConfirmed(v, t, fetchRes) ==
    IF fetchRes.outcome = "throw"
    THEN Handled(TRUE, <<kvSetNoAwait(subscriptionConfirmationKey)>>, <<>>, 1,
                 <<awaited("fetch"), notAwaited("kv.block.set"),
                   notAwaited("lifecycle.sync")>>,
                 FailedRecord(v, t, confirmThrownErrMsg(v, fetchRes.message)))
    ELSE IF fetchRes.status # 200
    THEN Handled(TRUE, <<kvSetNoAwait(subscriptionConfirmationKey)>>, <<>>, 1,
                 <<awaited("fetch"), notAwaited("kv.block.set"),
                   notAwaited("lifecycle.sync")>>,
                 FailedRecord(v, t, confirmStatusErrMsg(v, fetchRes.status)))
    ELSE Handled(TRUE, <<kvSetNoAwait(subscriptionConfirmationKey)>>, <<>>, 1,
                 <<awaited("fetch"), notAwaited("kv.block.set"),
                   notAwaited("lifecycle.sync")>>,
                 [status |-> "CONFIRMED", hasCreatedAt |-> FALSE,
                  createdAt |-> 0, description |-> <<>>, ttl |-> 0])

\* A confirmation that records a thrown fetch but not a non-200 status.
confirmSubscription_ignoresStatus(v, t, fetchRes) ==
    IF fetchRes.outcome = "throw"
    THEN Handled(TRUE, <<kvSetNoAwait(subscriptionConfirmationKey)>>, <<>>, 1,
                 <<awaited("fetch"), notAwaited("kv.block.set"),
                   notAwaited("lifecycle.sync")>>,
                 FailedRecord(v, t, confirmThrownErrMsg(v, fetchRes.message)))
    ELSE Handled(TRUE, <<>>, <<>>, 1,
                 <<awaited("fetch"), notAwaited("lifecycle.sync")>>, NoWrite)

\* fetchRes = [outcome, status, message]: fetch(SubscribeURL) rejects with
\* an error carrying `message`, or resolves with a status.
confirmSubscription(v, t, fetchRes) ==
    IF fetchRes.outcome = "throw"
    THEN Handled(TRUE, <<kvSetNoAwait(subscriptionConfirmationKey)>>, <<>>, 1,
                 <<awaited("fetch"), notAwaited("kv.block.set"),
                   notAwaited("lifecycle.sync")>>,
                 FailedRecord(v, t, confirmThrownErrMsg(v, fetchRes.message)))
    ELSE IF fetchRes.status # 200
    THEN Handled(TRUE, <<kvSetNoAwait(subscriptionConfirmationKey)>>, <<>>, 1,
                 <<awaited("fetch"), notAwaited("kv.block.set"),
                   notAwaited("lifecycle.sync")>>,
                 FailedRecord(v, t, confirmStatusErrMsg(v, fetchRes.status)))
    ELSE Handled(TRUE, <<>>, <<>>, 1,
                 <<awaited("fetch"), notAwaited("lifecycle.sync")>>, NoWrite)

\* The payload with message and messageId exchanged.
notificationPayload_swapped(body) ==
    [message |-> body.MessageId, messageId |-> body.Message,
     timestamp |-> body.Timestamp]

notificationPayload(body) ==
    [message |-> body.Message, messageId |-> body.MessageId,
     timestamp |-> body.Timestamp]

\* A dispatch that requests a reconciliation on a Type it does not know.
handleTopicSubscriptionMesage_syncsOnUnknown(v, t, body, fetchRes) ==
    IF body.Type = "SubscriptionConfirmation"
    THEN confirmSubscription(v, t, fetchRes)
    ELSE IF body.Type = "Notification"
    THEN Handled(FALSE, <<>>, <<notificationPayload(body)>>, 0,
                 <<awaited("events.emit")>>, NoWrite)
    ELSE Handled(FALSE, <<>>, <<>>, 1, <<notAwaited("lifecycle.sync")>>,
                 NoWrite)

handleTopicSubscriptionMesage(v, t, body, fetchRes) ==
    IF body.Type = "SubscriptionConfirmation"
    THEN confirmSubscription(v, t, fetchRes)
    ELSE IF body.Type = "Notification"
    THEN Handled(FALSE, <<>>, <<notificationPayload(body)>>, 0,
                 <<awaited("events.emit")>>, NoWrite)
    ELSE Handled(FALSE, <<>>, <<>>, 0, <<>>, NoWrite)

\* part_000 returns early, without responding, on a message of another topic.
topicMismatch(v, body) == v = "part_000" /\ ConfiguredTopic # body.TopicArn

\* A handler that dispatches the payload whatever the validator says.
onRequest_noVerify(v, t, body, sigValid, fetchRes) ==
    IF topicMismatch(v, body)
    THEN [raised |-> FALSE, responded |-> <<>>, trace |-> <<>>,
          did |-> Handled(FALSE, <<>>, <<>>, 0, <<>>, NoWrite)]
    ELSE LET did == handleTopicSubscriptionMesage(v, t, body, fetchRes)
         IN  [raised |-> FALSE, responded |-> <<200>>,
              trace |-> did.trace \o <<awaited("http.respond")>>,
              did |-> did]

\* sigValid: validator.validate calls back without an error.
\* The result adds: the handler threw; the responses sent with http.respond.
onRequest(v, t, body, sigValid, fetchRes) ==
    IF topicMismatch(v, body)
    THEN [raised |-> FALSE, responded |-> <<>>, trace |-> <<>>,
          did |-> Handled(FALSE, <<>>, <<>>, 0, <<>>, NoWrite)]
    ELSE IF ~sigValid
    THEN [raised |-> TRUE, responded |-> <<>>,
          trace |-> <<awaited("validator.validate")>>,
          did |-> Handled(FALSE, <<>>, <<>>, 0, <<>>, NoWrite)]
    ELSE LET did == handleTopicSubscriptionMesage(v, t, body, fetchRes)
         IN  [raised |-> FALSE, responded |-> <<200>>,
              trace |-> <<awaited("validator.validate")>> \o did.trace
                            \o <<awaited("http.respond")>>,
              did |-> did]

-----------------------------------------------------------------------------
(* inputs.configChange.onEvent ("blocks" only) *)

\* The best-effort Unsubscribe (its error is logged), the reset marker set
\* without await, then `await lifecycle.sync()`.
configChange(v, sig, rec, unsub) ==
    LET del == IF sig # Null
               THEN deleteTopicSubscription(v, rec, unsub)
               ELSE [threw |-> FALSE, message |-> <<>>, kvOps |-> <<>>,
                     kvConfirm |-> rec]
    IN  [calls |-> IF sig # Null THEN <<"Unsubscribe">> ELSE <<>>,
         unsubscribed |-> sig # Null /\ ~del.threw,
         kvOps |-> del.kvOps \o <<kvSetNoAwait(subscriptionResetKey)>>,
         kvConfirm |-> del.kvConfirm, syncCalls |-> 1,
         trace |-> (IF sig # Null THEN <<awaited("deleteTopicSubscription")>>
                    ELSE <<>>)
                    \o <<notAwaited("kv.block.set"), awaited("lifecycle.sync")>>]

-----------------------------------------------------------------------------
(* What the environment can answer *)

ListOutcomes(subs) ==
    {[throws |-> TRUE, pages |-> <<>>]}
        \cup {[throws |-> FALSE, pages |-> pages] : pages \in ListResponses(subs)}

SubscribeOutcomes ==
    {[outcome |-> "response", code |-> 200, arn |-> a] : a \in Arns}
        \cup {[outcome |-> "response", code |-> 500, arn |-> Null],
              [outcome |-> "throw", code |-> 0, arn |-> Null]}

UnsubscribeOutcomes ==
    {[outcome |-> "response", code |-> 200, message |-> <<>>],
     [outcome |-> "response", code |-> 500, message |-> <<>>],
     [outcome |-> "throw", code |-> 0, message |-> <<"socket hang up">>]}

FetchOutcomes ==
    {[outcome |-> "response", status |-> 200, message |-> ""],
     [outcome |-> "response", status |-> 403, message |-> ""],
     [outcome |-> "throw", status |-> 0, message |-> "fetch failed"]}

\* The message kinds sns-validator accepts.
MessageTypes == {"SubscriptionConfirmation", "Notification", "UnsubscribeConfirmation"}

Bodies ==
    {[Type |-> ty, TopicArn |-> topic, Message |-> "hi", MessageId |-> "m1",
      Timestamp |-> "t1"] : ty \in MessageTypes, topic \in TopicArns}

-----------------------------------------------------------------------------
(* The record of the last handler invocation *)

Snapshot == [signal |-> signal, rec |-> kvConfirm, reset |-> kvReset,
             now |-> now, remote |-> remote]

Idle ==
    [op |-> "none", pre |-> <<>>, input |-> <<>>, raised |-> FALSE,
     newStatus |-> "none", nextScheduleDelay |-> {},
     customStatusDescription |-> <<>>, signalUpdates |-> {}, calls |-> <<>>,
     kvOps |-> <<>>, fetched |-> FALSE, events |-> <<>>, syncCalls |-> 0,
     responded |-> <<>>, trace |-> <<>>, repeat |-> FALSE,
     requested |-> [by |-> "none", kvOps |-> <<>>], exists |-> FALSE]

\* `repeat` says that the invocation right before was of the same handler
\* and went the same way.  `requested` names, for a tick, the handler that
\* called lifecycle.sync() right before it, with the store operations that
\* handler issued.  `exists` is what a call of checkTopicSubscriptionExists
\* on its own returned.

\* How the existence check of a tick went: no check, the call threw, the
\* identity is among the listed subscriptions, a page without a list was
\* taken for a match, or the lists do not hold the identity.
listClass(sig, res, list) ==
    IF \A i \in 1..Len(res.calls) : res.calls[i] # "ListSubscriptionsByTopic"
    THEN "none"
    ELSE IF list.throws THEN "threw"
    ELSE IF sig \in Listed(list.pages) THEN "listed"
    ELSE IF checkTopicSubscriptionExists(list.pages, sig, 1) THEN "nolist"
    ELSE "notlisted"

Called(l, name) == \E i \in 1..Len(l.calls) : l.calls[i] = name

\* A call that is not sent gets no answer.
NoAnswer ==
    [outcome |-> "none", code |-> 0, status |-> 0, arn |-> Null,
     message |-> <<>>]
NoList == [throws |-> FALSE, pages |-> <<>>]

\* Which calls an invocation sends, given what it has read so far.
sendsList(v, sig, reset) == ~resetObserved(v, reset) /\ sig # Null

sendsSubscribe(v, t, sig, rec, reset, list) ==
    Called(onSync(v, t, sig, rec, reset, list,
                  [outcome |-> "throw", code |-> 0, arn |-> Null]),
           "Subscribe")

sendsFetch(v, body, sigValid) ==
    /\ ~topicMismatch(v, body)
    /\ sigValid
    /\ body.Type = "SubscriptionConfirmation"

LifecycleRecord(op, input, res) ==
    [Idle EXCEPT !.op = op, !.pre = Snapshot, !.input = input,
                 !.raised = res.raised, !.newStatus = res.newStatus,
                 !.nextScheduleDelay = res.nextScheduleDelay,
                 !.customStatusDescription = res.customStatusDescription,
                 !.signalUpdates = res.signalUpdates, !.calls = res.calls,
                 !.kvOps = res.kvOps,
                 !.repeat = /\ last.op = op
                            /\ last.newStatus = res.newStatus
                            /\ last.calls = res.calls,
                 !.requested = IF op = "sync" /\ last.syncCalls > 0
                               THEN [by |-> last.op, kvOps |-> last.kvOps]
                               ELSE Idle.requested]

\* The store writes in flight: the FAILED record of a callback, the set and
\* the delete of the reset marker.
\* `raced` counts the ticks that ran while a write was in flight (each
\* handler that issues such a write also calls lifecycle.sync()); the store
\* applies the writes before more than MaxRaced ticks have run, and before
\* another handler runs or the clock or the provider moves.
NoneInFlight ==
    [confirm |-> NoWrite, resetSet |-> FALSE, resetDelete |-> FALSE,
     raced |-> 0]

Flying(f) == f.confirm # NoWrite \/ f.resetSet \/ f.resetDelete

MayRun == ~Flying(inflight) \/ inflight.raced < MaxRaced

\* The writes in flight when a handler returns.
AfterHandler(f) ==
    [f EXCEPT !.raced = IF Flying(f) /\ Flying(inflight)
                        THEN inflight.raced + 1 ELSE 0]

AfterLanding(f) == [f EXCEPT !.raced = IF Flying(f) THEN f.raced ELSE 0]

Issues(kvOps, op) == \E i \in 1..Len(kvOps) : kvOps[i] = op

\* An operation issued without await has landed when the handler returns,
\* or is still in flight then.
Landings(kvOps) ==
    IF \E i \in 1..Len(kvOps) :
           kvOps[i][1] \in {"set, not awaited", "delete, not awaited"}
    THEN BOOLEAN ELSE {TRUE}

-----------------------------------------------------------------------------
(* The state after construction *)

Init ==
    /\ variant \in Variants
    /\ now = EpochMs
    /\ signal = Null
    /\ kvConfirm = NoRecord
    /\ kvReset = FALSE
    /\ inflight = NoneInFlight
    /\ remote = {}
    /\ phase = "active"
    /\ last = Idle

-----------------------------------------------------------------------------
(* The handlers *)

OnSync ==
    /\ phase = "active"
    /\ MayRun
    /\ \E list \in IF sendsList(variant, signal, kvReset)
                   THEN ListOutcomes(remote) ELSE {NoList} :
       \E sub \in IF sendsSubscribe(variant, now, signal, kvConfirm, kvReset, list)
                  THEN SubscribeOutcomes ELSE {NoAnswer} :
         LET res == onSync(variant, now, signal, kvConfirm, kvReset, list, sub)
             deletes == Issues(res.kvOps, kvDeleteNoAwait(subscriptionResetKey))
         IN  \E landed \in Landings(res.kvOps) :
               /\ signal' = applySignal(signal, res)
               /\ kvConfirm' = res.kvConfirm
               /\ kvReset' = IF deletes /\ landed THEN FALSE ELSE res.kvReset
               /\ inflight' = AfterHandler(
                                  IF deletes /\ ~landed
                                  THEN [inflight EXCEPT !.resetDelete = TRUE]
                                  ELSE inflight)
               /\ last' = LifecycleRecord("sync",
                              [list |-> listClass(signal, res, list),
                               sub |-> sub],
                              res)
    /\ UNCHANGED <<variant, now, remote, phase>>

OnDrain ==
    /\ phase \in {"active", "draining"}
    /\ ~Flying(inflight)
    /\ \E unsub \in IF signal # Null THEN UnsubscribeOutcomes ELSE {NoAnswer} :
         LET res == onDrain(variant, signal, kvConfirm, kvReset, unsub)
             sent == Called(res, "Unsubscribe")
         IN  /\ signal' = applySignal(signal, res)
             /\ kvConfirm' = res.kvConfirm
             /\ kvReset' = res.kvReset
             /\ remote' = IF sent /\ res.newStatus = "drained"
                          THEN remote \ {signal} ELSE remote
             /\ phase' = IF res.newStatus = "drained"
                         THEN "drained" ELSE "draining"
             /\ inflight' = AfterHandler(inflight)
             /\ last' = LifecycleRecord("drain",
                            [unsub |-> unsub], res)
    /\ UNCHANGED <<variant, now>>

OnRequest ==
    /\ phase \in {"active", "draining"}
    /\ ~Flying(inflight)
    /\ \E body \in Bodies, sigValid \in BOOLEAN :
       \E fetchRes \in IF sendsFetch(variant, body, sigValid)
                       THEN FetchOutcomes ELSE {NoAnswer} :
         LET res == onRequest(variant, now, body, sigValid, fetchRes)
             did == res.did
             writes == did.written # NoWrite
         IN  \E landed \in Landings(did.kvOps) :
               /\ kvConfirm' = IF writes /\ landed THEN did.written
                               ELSE kvConfirm
               /\ inflight' = AfterHandler(
                                  IF writes /\ ~landed
                                  THEN [inflight EXCEPT !.confirm = did.written]
                                  ELSE inflight)
               /\ last' = [Idle EXCEPT
                              !.op = "request", !.pre = Snapshot,
                              !.input = [body |-> body, sigValid |-> sigValid,
                                         fetchRes |-> fetchRes],
                              !.raised = res.raised, !.kvOps = did.kvOps,
                              !.fetched = did.fetched, !.events = did.events,
                              !.syncCalls = did.syncCalls,
                              !.responded = res.responded,
                              !.trace = res.trace,
                              !.repeat = /\ last.op = "request"
                                         /\ last.input.body = body
                                         /\ last.events = did.events]
    /\ UNCHANGED <<variant, now, signal, kvReset, remote, phase>>

ConfigChange ==
    /\ phase = "active"
    /\ ~Flying(inflight)
    /\ variant = "blocks"
    /\ \E unsub \in IF signal # Null THEN UnsubscribeOutcomes ELSE {NoAnswer} :
         LET res == configChange(variant, signal, kvConfirm, unsub)
         IN  \E landed \in Landings(res.kvOps) :
               /\ kvConfirm' = res.kvConfirm
               /\ kvReset' = IF landed THEN TRUE ELSE kvReset
               /\ inflight' = AfterHandler(
                                  IF landed THEN inflight
                                  ELSE [inflight EXCEPT !.resetSet = TRUE])
               /\ remote' = IF res.unsubscribed THEN remote \ {signal} ELSE remote
               /\ last' = [Idle EXCEPT
                              !.op = "configChange", !.pre = Snapshot,
                              !.input = [unsub |-> unsub],
                              !.calls = res.calls, !.kvOps = res.kvOps,
                              !.syncCalls = res.syncCalls,
                              !.trace = res.trace]
    /\ UNCHANGED <<variant, now, signal, phase>>

-----------------------------------------------------------------------------
(* The environment *)

\* Once drained the block is gone: nothing is observed any more.

\* Time passes: a small step, or a whole timeout window.
AdvanceClock ==
    /\ phase # "drained"
    /\ ~Flying(inflight)
    /\ \/ /\ ((now - EpochMs) % TimeoutMs(variant)) + ClockStepMs <= MaxExtraMs
          /\ now' = now + ClockStepMs
       \/ /\ ((now - EpochMs) \div TimeoutMs(variant)) < MaxWindows
          /\ now' = now + TimeoutMs(variant)
    /\ last' = Idle
    /\ UNCHANGED <<variant, signal, kvConfirm, kvReset, inflight, remote, phase>>

\* The store drops a value once its ttl (seconds) has passed.  A PENDING
\* record is written at its createdAt.
KvExpire ==
    /\ phase # "drained"
    /\ ~Flying(inflight)
    /\ kvConfirm.ttl > 0
    /\ now - kvConfirm.createdAt >= kvConfirm.ttl * 1000
    /\ kvConfirm' = NoRecord
    /\ last' = Idle
    /\ UNCHANGED <<variant, now, signal, kvReset, inflight, remote, phase>>

\* The store applies a write that was issued without await.
KvLand ==
    /\ Flying(inflight)
    /\ \/ /\ inflight.confirm # NoWrite
          /\ kvConfirm' = inflight.confirm
          /\ inflight' = AfterLanding([inflight EXCEPT !.confirm = NoWrite])
          /\ UNCHANGED kvReset
       \/ /\ inflight.resetSet
          /\ kvReset' = TRUE
          /\ inflight' = AfterLanding([inflight EXCEPT !.resetSet = FALSE])
          /\ UNCHANGED kvConfirm
       \/ /\ inflight.resetDelete
          /\ kvReset' = FALSE
          /\ inflight' = AfterLanding([inflight EXCEPT !.resetDelete = FALSE])
          /\ UNCHANGED kvConfirm
    /\ last' = Idle
    /\ UNCHANGED <<variant, now, signal, remote, phase>>

\* The provider confirms the subscription the block holds (it is listed from
\* now on), or removes one it lists.
ProviderChange ==
    /\ phase # "drained"
    /\ ~Flying(inflight)
    /\ \E a \in Arns :
         /\ a \in remote \/ a = signal
         /\ remote' = IF a \in remote THEN remote \ {a} ELSE remote \cup {a}
    /\ last' = Idle
    /\ UNCHANGED <<variant, now, signal, kvConfirm, kvReset, inflight, phase>>

Next ==
    \/ OnSync
    \/ OnDrain
    \/ OnRequest
    \/ ConfigChange
    \/ AdvanceClock
    \/ KvExpire
    \/ KvLand
    \/ ProviderChange

Spec == Init /\ [][Next]_vars

-----------------------------------------------------------------------------
(* onSync as a function of what it reads: the clock, the signal, the value  *)
(* under subscriptionConfirmationKey (any value of type SubscriptionState,  *)
(* whose createdAt the cast at the read does not check), the reset marker   *)
(* and the provider's answers.                                              *)

\* A stored PENDING record that lacks createdAt.
PendingWithoutCreatedAt(v) ==
    [status |-> PENDING, hasCreatedAt |-> FALSE, createdAt |-> 0,
     description |-> <<>>, ttl |-> subscriptionTimeoutSeconds(v)]

\* The values of type SubscriptionState the read can return at time t.
SubscriptionStates(v, t) ==
    {NoRecord, PendingWithoutCreatedAt(v), PendingRecord(v, EpochMs),
     PendingRecord(v, t), FailedRecord(v, EpochMs, subscribeErrMsg(v, 500))}

InitOnSync ==
    /\ variant \in Variants
    /\ now \in {EpochMs + ClockStepMs, EpochMs + TimeoutMs(variant) + ClockStepMs}
    /\ signal \in Arns \cup {Null}
    /\ kvConfirm \in SubscriptionStates(variant, now)
    /\ kvReset \in {FALSE, variant = "blocks"}
    /\ inflight = NoneInFlight
    /\ remote \in SUBSET Arns
    /\ phase = "active"
    /\ last = Idle

NextOnSync == OnSync

SpecOnSync == InitOnSync /\ [][NextOnSync]_vars

-----------------------------------------------------------------------------
(* checkTopicSubscriptionExists as a function of the chain of pages the     *)
(* provider answers with and of the identity looked for.                    *)

\* Chains of one page more than those the ticks of Spec are answered with.
LongChains == UNION {[1..n -> PageBodies] : n \in 1..(MaxPages + 1)}

InitExists ==
    /\ variant \in Variants
    /\ now = EpochMs
    /\ signal = Null
    /\ kvConfirm = NoRecord
    /\ kvReset = FALSE
    /\ inflight = NoneInFlight
    /\ remote = {}
    /\ phase = "active"
    /\ last = Idle

CheckExists ==
    /\ \E pages \in LongChains, subscriptionArn \in Arns :
         last' = [Idle EXCEPT
                     !.op = "checkTopicSubscriptionExists",
                     !.input = [pages |-> pages,
                                subscriptionArn |-> subscriptionArn],
                     !.calls = listRequests(pages, subscriptionArn, 1),
                     !.exists = checkTopicSubscriptionExists(
                                    pages, subscriptionArn, 1)]
    /\ UNCHANGED <<variant, now, signal, kvConfirm, kvReset, inflight, remote,
                   phase>>

NextExists == CheckExists

SpecExists == InitExists /\ [][NextExists]_vars

-----------------------------------------------------------------------------
(* Reconciliation under a host that runs onSync again whenever the last     *)
(* result carried nextScheduleDelay, with a provider that accepts every     *)
(* Subscribe, and with no callback, configuration change or drain.          *)
(* ListSubscriptionsByTopic has every outcome it has in Spec.  A run that   *)
(* rejects returns no result and so no nextScheduleDelay: the host may run  *)
(* onSync again (TriggeredSync) but nothing obliges it to.  The host keeps  *)
(* the last result while time passes, so `last` is left alone by the        *)
(* environment.                                                             *)

AcceptedSubscribes ==
    {s \in SubscribeOutcomes : s.outcome = "response" /\ s.code = 200}

\* One run of onSync.
SyncRun ==
    /\ phase = "active"
    /\ \E list \in IF sendsList(variant, signal, kvReset)
                   THEN ListOutcomes(remote) ELSE {NoList} :
       \E sub \in IF sendsSubscribe(variant, now, signal, kvConfirm, kvReset, list)
                  THEN AcceptedSubscribes ELSE {NoAnswer} :
         LET res == onSync(variant, now, signal, kvConfirm, kvReset, list, sub)
         IN  /\ signal' = applySignal(signal, res)
             /\ kvConfirm' = res.kvConfirm
             /\ kvReset' = res.kvReset
             /\ last' = LifecycleRecord("sync",
                            [list |-> listClass(signal, res, list),
                             sub |-> sub],
                            res)
    /\ UNCHANGED <<variant, now, inflight, remote, phase>>

\* The host holds a re-invocation: the last result carried a delay.
Rescheduled == last.op = "sync" /\ last.nextScheduleDelay # {}

\* The host runs onSync because the last result asked for it.
ScheduledSync == Rescheduled /\ SyncRun

\* The host runs onSync on a trigger from outside (creation, manual sync).
TriggeredSync == ~Rescheduled /\ SyncRun

Tock ==
    /\ \/ /\ ((now - EpochMs) % TimeoutMs(variant)) + ClockStepMs <= MaxExtraMs
          /\ now' = now + ClockStepMs
       \/ /\ ((now - EpochMs) \div TimeoutMs(variant)) < MaxWindows
          /\ now' = now + TimeoutMs(variant)
    /\ UNCHANGED <<variant, signal, kvConfirm, kvReset, inflight, remote, phase,
                   last>>

Expire ==
    /\ kvConfirm.ttl > 0
    /\ now - kvConfirm.createdAt >= kvConfirm.ttl * 1000
    /\ kvConfirm' = NoRecord
    /\ UNCHANGED <<variant, now, signal, kvReset, inflight, remote, phase, last>>

Provider ==
    /\ \E a \in Arns :
         /\ a \in remote \/ a = signal
         /\ remote' = IF a \in remote THEN remote \ {a} ELSE remote \cup {a}
    /\ UNCHANGED <<variant, now, signal, kvConfirm, kvReset, inflight, phase,
                   last>>

NextFair ==
    \/ ScheduledSync
    \/ TriggeredSync
    \/ Tock
    \/ Expire
    \/ Provider

\* The host does run a re-invocation it holds, and time does pass.
FairSpec ==
    /\ Init
    /\ [][NextFair]_vars
    /\ WF_vars(ScheduledSync)
    /\ WF_vars(Tock)

-----------------------------------------------------------------------------
(* Properties.  They read `last`: what the last invocation found (pre,     *)
(* input), did (calls, kvOps, events, trace) and returned, next to the     *)
(* state it left.                                                          *)

Tick == last.op = "sync"
Drain == last.op = "drain"
Request == last.op = "request"

Subscribes == Called(last, "Subscribe")
Unsubscribes == Called(last, "Unsubscribe")
SubscribeSucceeded ==
    Subscribes /\ last.input.sub.outcome = "response" /\ last.input.sub.code = 200

\* The tick held an identity, the provider answered the existence check with
\* subscription lists, and none of them holds the identity.
HeldNotListed ==
    Tick /\ last.pre.signal # Null /\ last.input.list = "notlisted"

\* The tick held an identity that the provider lists.
HeldListed ==
    Tick /\ last.pre.signal # Null /\ last.input.list = "listed"

ElapsedMs == last.pre.now - last.pre.rec.createdAt

PendingWithCreatedAt ==
    last.pre.rec.status = PENDING /\ last.pre.rec.hasCreatedAt

\* in_progress, and nothing was sent to create a subscription.
Waits == last.newStatus = "in_progress" /\ ~Subscribes

\* C1 as stated: a tick that holds no identity issues Subscribe, issues no
\* Unsubscribe, and returns no status (ready or other) without Subscribe.
C1_Original ==
    (Tick /\ last.pre.signal = Null)
        => (Subscribes /\ ~Unsubscribes /\ last.newStatus # "ready")

\* C1 amended: a tick that holds no identity and finds no reset marker issues
\* Subscribe, issues no Unsubscribe and returns neither ready nor draft; a
\* tick that finds the reset marker returns draft and sends nothing.
C1_SubscribeUnlessReset ==
    (Tick /\ last.pre.signal = Null)
        => IF variant = "blocks" /\ last.pre.reset
           THEN /\ last.newStatus = "draft"
                /\ last.calls = <<>>
                /\ last.kvOps = <<kvDeleteNoAwait(subscriptionResetKey)>>
           ELSE /\ Subscribes
                /\ ~Unsubscribes
                /\ last.newStatus \in {"in_progress", "failed", "none"}
                /\ last.newStatus = "none" => last.raised

C1_Witness ==
    /\ Tick /\ last.pre.signal = Null /\ ~last.pre.reset
    /\ last.pre.rec.status = FAILED
    /\ Subscribes /\ last.newStatus = "in_progress"

\* C2: with an identity held and not listed and a PENDING record carrying
\* createdAt, the tick waits (in_progress, no Subscribe) exactly when
\* now - createdAt is at most the timeout, and re-subscribes otherwise.
C2_WaitsIffWithinTimeout ==
    (HeldNotListed /\ PendingWithCreatedAt)
        => /\ Waits <=> (ElapsedMs <= subscriptionTimeoutSeconds(variant) * 1000)
           /\ Subscribes <=> (ElapsedMs > subscriptionTimeoutSeconds(variant) * 1000)
           /\ Waits => last.nextScheduleDelay = {subscriptionRecheckSeconds}

\* A tick landing exactly on the boundary.
C2_Witness ==
    /\ HeldNotListed /\ PendingWithCreatedAt
    /\ ElapsedMs = subscriptionTimeoutSeconds(variant) * 1000
    /\ Waits

\* C3: a tick that finds the record PENDING, the identity held and not
\* listed, and the elapsed time within the timeout sends no Subscribe, issues
\* no store operation and leaves the record (status, createdAt, ttl) and the
\* identity as they were; so does every tick that follows it in that state.
C3_WaitingTickChangesNothing ==
    (HeldNotListed /\ PendingWithCreatedAt
            /\ ElapsedMs <= subscriptionTimeoutSeconds(variant) * 1000)
        => /\ ~Subscribes
           /\ last.kvOps = <<>>
           /\ kvConfirm = last.pre.rec
           /\ signal = last.pre.signal
           /\ last.signalUpdates = {}

\* A waiting tick right after a waiting tick.
C3_Witness ==
    /\ HeldNotListed /\ PendingWithCreatedAt
    /\ ElapsedMs > 0
    /\ Waits /\ last.repeat

\* C4: a tick whose identity the provider lists returns ready, sends neither
\* Subscribe nor Unsubscribe, leaves the identity, and leaves no handshake
\* record, whatever the record was.
C4_ListedIsReady ==
    HeldListed
        => /\ last.newStatus = "ready"
           /\ ~last.raised
           /\ ~Subscribes /\ ~Unsubscribes
           /\ signal = last.pre.signal
           /\ kvConfirm = NoRecord

C4_Witness ==
    /\ HeldListed /\ last.pre.rec.status = FAILED
    /\ last.newStatus = "ready" /\ kvConfirm = NoRecord

\* The validator ran on the payload and reported an error.
VerificationFailed ==
    Request /\ ~last.input.sigValid /\ last.trace # <<>>

\* C5: a callback whose signature is not valid, of any Type, fetches no
\* confirmation URL, issues no store operation, emits no event, requests no
\* reconciliation and gets no 200; and when the validator reports the error
\* the handler fails with it.
C5_InvalidSignatureRejected ==
    (Request /\ ~last.input.sigValid)
        => /\ ~last.fetched
           /\ last.kvOps = <<>>
           /\ kvConfirm = last.pre.rec /\ kvReset = last.pre.reset
           /\ last.events = <<>>
           /\ last.syncCalls = 0
           /\ last.responded = <<>>
           /\ VerificationFailed => last.raised
           /\ (variant = "blocks"
                 \/ last.input.body.TopicArn = ConfiguredTopic)
                => VerificationFailed

C5_Witness ==
    /\ VerificationFailed /\ last.raised
    /\ last.input.body.Type = "SubscriptionConfirmation"
    /\ last.pre.rec.status = PENDING

\* C6: when a tick issues Subscribe and the provider answers 200 with the
\* identity s, the record afterwards is PENDING with createdAt the time of
\* the tick, the identity is s, the status is in_progress and the delay is
\* 5 seconds; and every PENDING record in the store has createdAt set.
C6_SubscribeSuccess ==
    /\ SubscribeSucceeded
         => /\ kvConfirm.status = PENDING
            /\ kvConfirm.hasCreatedAt
            /\ kvConfirm.createdAt = last.pre.now
            /\ kvConfirm.description = <<>>
            /\ last.kvOps = <<kvSet(subscriptionConfirmationKey)>>
            /\ last.signalUpdates = {last.input.sub.arn}
            /\ signal = last.input.sub.arn
            /\ last.newStatus = "in_progress"
            /\ last.nextScheduleDelay = {5}
    /\ kvConfirm.status = PENDING
         => (kvConfirm.hasCreatedAt /\ kvConfirm.createdAt > 0)

\* A fresh block subscribes.
C6_Witness ==
    /\ SubscribeSucceeded
    /\ last.pre.signal = Null /\ last.pre.rec = NoRecord
    /\ signal = "sub-1" /\ kvConfirm.status = PENDING

\* The handshake of the tick is stalled: no record, or a PENDING record
\* older than the timeout.
Stalled ==
    \/ last.pre.rec = NoRecord
    \/ /\ PendingWithCreatedAt
       /\ ElapsedMs > subscriptionTimeoutSeconds(variant) * 1000

\* C7: a tick with an identity held and not listed whose record is absent, or
\* PENDING and older than the timeout, issues Subscribe; on success the
\* record is a new PENDING record with createdAt the time of this tick and
\* the identity is the one Subscribe returned.
C7_StalledHandshakeRetries ==
    (HeldNotListed /\ Stalled)
        => /\ Subscribes
           /\ SubscribeSucceeded
                => /\ kvConfirm.status = PENDING
                   /\ kvConfirm.hasCreatedAt
                   /\ kvConfirm.createdAt = last.pre.now
                   /\ signal = last.input.sub.arn

\* A timed-out PENDING record is replaced, and the identity with it.
C7_Witness ==
    /\ HeldNotListed /\ PendingWithCreatedAt
    /\ ElapsedMs > subscriptionTimeoutSeconds(variant) * 1000
    /\ SubscribeSucceeded
    /\ signal # last.pre.signal
    /\ kvConfirm.createdAt = last.pre.now

\* A verified SubscriptionConfirmation callback.
VerifiedConfirmation ==
    /\ Request
    /\ last.input.sigValid
    /\ last.input.body.Type = "SubscriptionConfirmation"
    /\ last.fetched

FetchFailed ==
    \/ last.input.fetchRes.outcome = "throw"
    \/ last.input.fetchRes.outcome = "response" /\ last.input.fetchRes.status # 200

\* The description names the cause of the failed fetch.
NamesCause(description, fetchRes) ==
    /\ Len(description) = 2
    /\ description[2] = IF fetchRes.outcome = "throw"
                        THEN fetchRes.message ELSE ToString(fetchRes.status)

\* C8: after a verified SubscriptionConfirmation whose fetch answers a
\* non-200 status or fails, the record is FAILED with a description naming
\* the cause; and a tick that holds an identity not listed and finds a FAILED
\* record returns failed with the stored description, clears the identity
\* and issues no Subscribe.
C8_FailedConfirmation ==
    /\ (VerifiedConfirmation /\ FetchFailed)
         => /\ kvConfirm.status = FAILED
            /\ NamesCause(kvConfirm.description, last.input.fetchRes)
    /\ (HeldNotListed /\ last.pre.rec.status = FAILED)
         => /\ last.newStatus = "failed"
            /\ last.customStatusDescription = last.pre.rec.description
            /\ last.signalUpdates = {Null}
            /\ signal = Null
            /\ ~Subscribes

\* The tick reports the 403 that a confirmation callback stored.
C8_Witness ==
    /\ HeldNotListed /\ last.pre.rec.status = FAILED
    /\ last.newStatus = "failed"
    /\ Len(last.customStatusDescription) = 2
    /\ last.customStatusDescription[2] = "403"
    /\ signal = Null

\* A verified Notification callback.
VerifiedNotification ==
    /\ Request
    /\ last.input.sigValid
    /\ last.input.body.Type = "Notification"
    /\ last.trace # <<>>

\* C9: a verified Notification emits exactly one event, its payload being
\* message, messageId and timestamp of the inbound payload; it leaves the
\* record, the reset marker and the identity, requests no reconciliation,
\* and then answers 200.  A redelivery emits again.
C9_NotificationEmitsOnce ==
    VerifiedNotification
        => /\ last.events =
                <<[message |-> last.input.body.Message,
                   messageId |-> last.input.body.MessageId,
                   timestamp |-> last.input.body.Timestamp]>>
           /\ last.kvOps = <<>>
           /\ kvConfirm = last.pre.rec
           /\ kvReset = last.pre.reset
           /\ signal = last.pre.signal
           /\ last.syncCalls = 0
           /\ ~last.fetched
           /\ ~last.raised
           /\ last.responded = <<200>>
           /\ last.trace = <<awaited("validator.validate"),
                             awaited("events.emit"), awaited("http.respond")>>

\* The same notification delivered twice in a row.
C9_Witness ==
    /\ VerifiedNotification /\ last.repeat
    /\ Len(last.events) = 1
    /\ last.events[1].messageId = "m1"
    /\ last.pre.rec.status = PENDING

UnsubscribeFailed ==
    \/ last.input.unsub.outcome = "throw"
    \/ last.input.unsub.outcome = "response" /\ last.input.unsub.code # 200

\* The description is the error of the failed Unsubscribe.
IsProviderError(description, unsub) ==
    IF unsub.outcome = "throw"
    THEN description = unsub.message
    ELSE Len(description) = 2 /\ description[2] = ToString(unsub.code)

\* C10: a drain that holds an identity issues Unsubscribe for it; if that
\* fails the result is draining_failed with the provider error, the identity
\* stays and the host can drain again; if it succeeds the result is drained.
\* A drain that holds no identity is drained and issues no Unsubscribe.
C10_DrainOutcomes ==
    Drain
        => /\ ~last.raised
           /\ IF last.pre.signal = Null
              THEN last.newStatus = "drained" /\ last.calls = <<>>
              ELSE /\ last.calls = <<"Unsubscribe">>
                   /\ IF UnsubscribeFailed
                      THEN /\ last.newStatus = "draining_failed"
                           /\ IsProviderError(last.customStatusDescription,
                                              last.input.unsub)
                           /\ last.signalUpdates = {}
                           /\ signal = last.pre.signal
                           /\ phase = "draining"
                      ELSE last.newStatus = "drained"

\* A drain that fails again after a failed drain, for the same identity.
C10_Witness ==
    /\ Drain /\ last.repeat
    /\ last.newStatus = "draining_failed"
    /\ last.calls = <<"Unsubscribe">>
    /\ signal = "sub-1"

\* The tick that runs right after configChange called lifecycle.sync().
ResetTick == Tick /\ last.requested.by = "configChange"

\* C11: the tick that configChange requests finds the reset marker and,
\* whatever the identity and the record, returns draft with the identity
\* null, sends neither ListSubscriptionsByTopic nor Subscribe and leaves the
\* marker cleared, so that a tick right after a draft tick is not draft again;
\* and configChange leaves the marker set also when its Unsubscribe fails.
C11_ResetTickIsDraft ==
    /\ ResetTick
         => /\ last.pre.reset
            /\ last.newStatus = "draft"
            /\ last.signalUpdates = {Null}
            /\ signal = Null
            /\ last.calls = <<>>
            /\ ~kvReset
    /\ ~(Tick /\ last.newStatus = "draft" /\ last.repeat)
    /\ last.op = "configChange" => kvReset

\* The statuses onSync may hand back to the host.
SyncStatuses == {"draft", "in_progress", "ready", "failed"}

\* C12: every tick, whatever ListSubscriptionsByTopic and Subscribe answer or
\* throw, ends by returning a status of the contract, with a description
\* when the status is failed, and never by raising an error.
C12_NoErrorEscapesOnSync ==
    Tick
        => /\ ~last.raised
           /\ last.newStatus \in SyncStatuses
           /\ last.newStatus = "failed" => last.customStatusDescription # <<>>

\* The tick that runs right after a callback that issued the write of a
\* FAILED record called lifecycle.sync().
TickAfterFailedConfirmation ==
    /\ Tick
    /\ last.requested.by = "request"
    /\ Issues(last.requested.kvOps, kvSetNoAwait(subscriptionConfirmationKey))

\* C13: when a verified SubscriptionConfirmation's fetch fails, the FAILED
\* record is in the store, no write of it still in flight, once the handler
\* has answered 200; and the tick the handler requested, when it reads the
\* record, reads that FAILED record.
C13_FailedRecordBeforeAck ==
    /\ (VerifiedConfirmation /\ FetchFailed /\ last.responded = <<200>>)
         => /\ inflight.confirm = NoWrite
            /\ kvConfirm.status = FAILED
            /\ NamesCause(kvConfirm.description, last.input.fetchRes)
    /\ (TickAfterFailedConfirmation /\ HeldNotListed)
         => last.pre.rec.status = FAILED

\* C14: a lifecycle handler returns a reschedule delay exactly when its
\* status is in_progress, and the delay is then 5 seconds; failed, ready,
\* draft, drained and draining_failed carry none, so after a failed tick the
\* host has no re-invocation to run and Subscribe is sent again only by a
\* tick that something else triggers.
C14_RescheduleOnlyInProgress ==
    (Tick \/ Drain)
        => /\ last.nextScheduleDelay # {} <=> last.newStatus = "in_progress"
           /\ last.newStatus = "in_progress"
                => last.nextScheduleDelay = {subscriptionRecheckSeconds}
           /\ subscriptionRecheckSeconds = 5

\* A tick whose Subscribe the provider refused: failed, and no delay.
C14_Witness ==
    /\ Tick /\ Subscribes
    /\ last.input.sub.outcome = "response" /\ last.input.sub.code = 500
    /\ last.newStatus = "failed"
    /\ last.nextScheduleDelay = {}

\* A callback that names a topic other than the configured one.
ForeignTopic == Request /\ last.input.body.TopicArn # ConfiguredTopic

\* C15: a callback whose TopicArn is not the configured topicArn, its
\* signature valid or not, is dropped: no error is raised, no confirmation
\* URL fetched, no store operation issued, no event emitted and no
\* reconciliation requested.
C15_ForeignTopicDropped ==
    ForeignTopic
        => /\ ~last.raised
           /\ ~last.fetched
           /\ last.kvOps = <<>>
           /\ kvConfirm = last.pre.rec /\ kvReset = last.pre.reset
           /\ inflight = NoneInFlight
           /\ last.events = <<>>
           /\ last.syncCalls = 0

\* A drain that held an identity and whose Unsubscribe succeeded.
DrainedHeld == Drain /\ last.pre.signal # Null /\ last.newStatus = "drained"

\* C16: after a drain that held an identity and whose Unsubscribe succeeded,
\* the identity signal is null and the store holds no handshake record.
C16_DrainClearsIdentity ==
    DrainedHeld
        => /\ signal = Null
           /\ kvConfirm = NoRecord

\* C17: every PENDING record in the store was written, at its createdAt,
\* with a ttl of at least one second and at most the timeout that onSync
\* compares the elapsed time with, so that its expiry is due once the
\* timeout has passed; and a tick waits (in_progress, no Subscribe) only on
\* a PENDING record whose elapsed time is within the timeout.
C17_TtlWithinTimeout ==
    /\ kvConfirm.status = PENDING
         => /\ kvConfirm.hasCreatedAt
            /\ kvConfirm.ttl >= 1
            /\ kvConfirm.ttl <= subscriptionTimeoutSeconds(variant)
            /\ (now - kvConfirm.createdAt >= TimeoutMs(variant))
                 => (now - kvConfirm.createdAt >= kvConfirm.ttl * 1000)
    /\ (Tick /\ Waits)
         => /\ last.pre.rec.status = PENDING
            /\ ElapsedMs <= TimeoutMs(variant)

\* A record whose expiry is due and that a tick still finds: it waits for
\* the last time.
C17_Witness ==
    /\ Tick /\ Waits
    /\ kvConfirm.status = PENDING
    /\ now - kvConfirm.createdAt = kvConfirm.ttl * 1000
    /\ kvConfirm.ttl = subscriptionTimeoutSeconds(variant)

\* The tick read a PENDING record that has no createdAt.
PendingNoCreatedAt ==
    last.pre.rec.status = PENDING /\ ~last.pre.rec.hasCreatedAt

ExistenceChecked == last.op = "checkTopicSubscriptionExists"

\* C19: for every chain of pages, checkTopicSubscriptionExists returns true
\* exactly when the identity is the SubscriptionArn of an entry of some page
\* of the chain (so a last page without a subscription list, or with an
\* empty one, yields false), and it sends at most one request per page.
C19_ExistsIffListed ==
    ExistenceChecked
        => /\ last.exists
                <=> last.input.subscriptionArn \in Listed(last.input.pages)
           /\ Len(last.calls) <= Len(last.input.pages)

\* The tick sent Subscribe and the provider answered with a status other
\* than 200.
SubscribeRefused ==
    /\ Tick /\ Subscribes
    /\ last.input.sub.outcome = "response"
    /\ last.input.sub.code # 200

\* C20: a tick whose Subscribe the provider answers with a status other than
\* 200, on a first subscription and on a re-subscribe alike, returns failed
\* with a description carrying that status, sets the identity to null,
\* issues no store operation (no PENDING record is written) and returns no
\* reschedule delay.
C20_SubscribeFailure ==
    SubscribeRefused
        => /\ last.newStatus = "failed"
           /\ ~last.raised
           /\ Len(last.customStatusDescription) = 2
           /\ last.customStatusDescription[2] = ToString(last.input.sub.code)
           /\ last.signalUpdates = {Null}
           /\ signal = Null
           /\ last.kvOps = <<>>
           /\ kvConfirm = last.pre.rec
           /\ last.nextScheduleDelay = {}

\* A re-subscribe over a timed-out PENDING record that the provider refuses.
C20_Witness ==
    /\ SubscribeRefused
    /\ last.pre.signal # Null
    /\ PendingWithCreatedAt /\ ElapsedMs > TimeoutMs(variant)
    /\ last.newStatus = "failed" /\ signal = Null

\* Position of a call in the trace of the last invocation (0: not there).
TracePos(call) ==
    IF \E i \in 1..Len(last.trace) : last.trace[i][1] = call
    THEN CHOOSE i \in 1..Len(last.trace) : last.trace[i][1] = call
    ELSE 0

\* How often a call occurs in the trace of the last invocation.
TraceCount(call) ==
    Cardinality({i \in 1..Len(last.trace) : last.trace[i][1] = call})

\* C21: a verified SubscriptionConfirmation whose fetch answers 200 issues
\* no store operation, leaves the stored record (status, createdAt, ttl) as
\* it was and emits no event; and every verified SubscriptionConfirmation,
\* its fetch succeeded or failed, calls lifecycle.sync() exactly once, after
\* the fetch and before http.respond sends the 200.
C21_DeferredConfirmation ==
    /\ (VerifiedConfirmation /\ ~FetchFailed)
         => /\ last.kvOps = <<>>
            /\ kvConfirm = last.pre.rec
            /\ inflight = NoneInFlight
            /\ last.events = <<>>
    /\ VerifiedConfirmation
         => /\ last.syncCalls = 1
            /\ TraceCount("lifecycle.sync") = 1
            /\ TracePos("fetch") < TracePos("lifecycle.sync")
            /\ TracePos("lifecycle.sync") < TracePos("http.respond")
            /\ last.responded = <<200>>
            /\ last.events = <<>>

\* A confirmation fetched with 200 while the handshake is PENDING: the
\* record is still PENDING afterwards.
C21_Witness ==
    /\ VerifiedConfirmation /\ ~FetchFailed
    /\ last.pre.rec.status = PENDING
    /\ kvConfirm = last.pre.rec
    /\ last.syncCalls = 1
    /\ last.responded = <<200>>

\* A callback that passed the handler's checks and whose Type is neither
\* SubscriptionConfirmation nor Notification.
VerifiedUnrecognized ==
    /\ Request
    /\ last.input.sigValid
    /\ last.input.body.Type \notin {"SubscriptionConfirmation", "Notification"}
    /\ last.trace # <<>>

\* C22: a verified callback of a Type that is neither SubscriptionConfirmation
\* nor Notification does not fail: it fetches nothing, issues no store
\* operation, emits no event, requests no reconciliation, and is answered
\* with 200.
C22_UnrecognizedTypeAcknowledged ==
    VerifiedUnrecognized
        => /\ ~last.raised
           /\ ~last.fetched
           /\ last.kvOps = <<>>
           /\ kvConfirm = last.pre.rec /\ kvReset = last.pre.reset
           /\ inflight = NoneInFlight
           /\ last.events = <<>>
           /\ last.syncCalls = 0
           /\ last.responded = <<200>>
           /\ last.trace = <<awaited("validator.validate"),
                             awaited("http.respond")>>

\* An UnsubscribeConfirmation arrives while the handshake is PENDING.
C22_Witness ==
    /\ VerifiedUnrecognized
    /\ last.input.body.Type = "UnsubscribeConfirmation"
    /\ last.pre.rec.status = PENDING
    /\ last.responded = <<200>>

\* The provider lists the identity the block holds.
ListedHeld == signal # Null /\ signal \in remote

\* The last tick returned ready and sent no Subscribe.
LastTickReady == Tick /\ last.newStatus = "ready" /\ ~Subscribes

\* The times at which a PENDING record can be written with the clock of
\* the model still going beyond the end of its timeout window.
EarlyTimes ==
    {EpochMs + k * ClockStepMs : k \in 0..((MaxExtraMs \div ClockStepMs) - 1)}

\* An identity is held and not listed, and its PENDING record was written
\* at time c.
Unconfirmed(c) ==
    /\ signal # Null /\ signal \notin remote
    /\ kvConfirm.status = PENDING
    /\ kvConfirm.createdAt = c

\* A tick at or after the end of the timeout window of a record written at
\* time c sent Subscribe, or a tick returned ready.
Resubscribed(c) ==
    \/ LastTickReady
    \/ /\ Tick /\ Subscribes
       /\ last.pre.now >= c + TimeoutMs(variant)

\* C23: under FairSpec, if from some time on the provider lists the held
\* identity for ever, then from some time on the last tick is always one
\* that returned ready without sending Subscribe; and a PENDING record of an
\* identity that is not listed leads to a tick that sends Subscribe once the
\* timeout window of the record has passed (or to a ready tick).
C23_EventualReadiness ==
    /\ (<>[]ListedHeld) => (<>[]LastTickReady)
    /\ \A c \in EarlyTimes :
         Unconfirmed(c) ~> Resubscribed(c)

\* The last tick rejected with the error of ListSubscriptionsByTopic.
ListRejected == Tick /\ last.input.list = "threw"

\* C23 on the behaviours in which no tick rejects: the same two properties
\* hold when every ListSubscriptionsByTopic call is answered.
ReadinessWhenListsAnswer ==
    ([]~ListRejected) => C23_EventualReadiness

\* A ready tick right after a ready tick, the identity being listed.
C23_Witness ==
    /\ LastTickReady /\ last.repeat
    /\ ListedHeld

\* A re-subscribe after a timeout window in which nothing was confirmed.
C23_WitnessRetry ==
    /\ Tick /\ Subscribes
    /\ last.pre.signal # Null
    /\ PendingWithCreatedAt
    /\ ElapsedMs > TimeoutMs(variant)

====
